---- MODULE Spec2Model ----
(***************************************************************************)
(* Model of pj_krihs_sentiment.py: the KRIHS sentiment crawler.            *)
(*                                                                         *)
(* Texts (icon alt texts, cell texts) are sequences of tokens.  The module *)
(* is ASCII only, so the Korean tokens of the source are romanised:        *)
(*   "suchuk"   = U+C218 U+CD95 (contraction)                              *)
(*   "hwakjang" = U+D655 U+C7A5 (expansion)                                *)
(*   "anjeong"  = U+C548 U+C815 (stability)                                *)
(*   "dangye"   = U+B2E8 U+ACC4 (the step suffix)                          *)
(*   "jiyeokmyeong" = the header caption of the region column              *)
(* and the district names are written in Latin letters.                    *)
(* Optional[T] values are sequences: <<>> is None, <<v>> is the value v    *)
(* (a period (y, m) is the pair <<y, m>>).                                 *)
(***************************************************************************)
EXTENDS Integers, Sequences, FiniteSets, TLC

VARIABLES
    \* ---- the collector (collect / collect_incremental) ----
    pc,          \* position of the running call
    run,         \* arguments and plan of the running call
    cur,         \* the month_iter generator's (y, m)
    rows,        \* collect's accumulator
    pages,       \* pages opened and not yet closed
    session,     \* playwright / browser / context handles
    fetched,     \* periods page.goto was called for in this call
    batches,     \* upsert requests sent to the gateway by this call, each
                 \* [rows, applied]: the batch and whether the gateway applied it
    ret,         \* value returned by the call (None while it runs or raised)
    exc,         \* what the call raised ("" when nothing)
    store,       \* rows held by the Supabase table
    store0,      \* the table as it was when the call started
    ncalls,      \* calls started so far
    gaps,        \* <<dataset, period>>: the period gave no rows in a run that
                 \* persisted rows of a later period of its window
    \* ---- build_url called on its own ----
    u_in, u_out,
    \* ---- score_weather called on its own ----
    sw_in, sw_out,
    \* ---- month_iter / next_month called on their own ----
    mi,
    \* ---- parse_table_icons called on its own ----
    pt

vars == <<pc, run, cur, rows, pages, session, fetched, batches, ret, exc, store,
          store0, ncalls, gaps, u_in, u_out, sw_in, sw_out, mi, pt>>

None == <<>>
Some(v) == <<v>>

-----------------------------------------------------------------------------
(* 1. Dataset registry and build_url *)

DATASETS ==
    [market_consume |-> [path |-> "SystemIntro",    default_item |-> 2],
     house_consume  |-> [path |-> "Mind_House",     default_item |-> 7],
     house_sale     |-> [path |-> "Mind_House_Cur", default_item |-> 12],
     house_rent     |-> [path |-> "Mind_Rent_Cur",  default_item |-> 14],
     land_consume   |-> [path |-> "Mind_Land",      default_item |-> 6]]

BASE == "https://kremap.krihs.re.kr/menu2"

\* f"{int(month):02d}": at least two characters, zero padded
Pad2(n) == IF n >= 0 /\ n < 10 THEN "0" \o ToString(n) ELSE ToString(n)

\* item_cd or default: None and 0 are both falsy
ItemOr(item_cd, default) ==
    IF item_cd = None \/ item_cd = Some(0) THEN default ELSE item_cd[1]

\* urllib.parse.urlencode of a dict whose keys and values need no quoting:
\* k=v pairs joined by & in insertion order
RECURSIVE urlencode(_)
urlencode(params) ==
    IF params = <<>> THEN ""
    ELSE params[1][1] \o "=" \o params[1][2]
         \o (IF Len(params) > 1 THEN "&" ELSE "") \o urlencode(Tail(params))

\* the variant that puts the jin marker after item_cd
build_url_JinLast(dataset_key, year, month, item_cd) ==
    IF dataset_key \notin DOMAIN DATASETS
    THEN [raised |-> "KeyError", url |-> ""]
    ELSE LET ds == DATASETS[dataset_key]
             p1 == << <<"area_cd", "11">>, <<"Gbn", "MONTH">>,
                      <<"year", ToString(year)>>, <<"month", Pad2(month)>> >>
             p2 == Append(p1, <<"item_cd", ToString(ItemOr(item_cd, ds.default_item))>>)
             p3 == IF ds.path = "SystemIntro"
                   THEN Append(p2, <<"jin", "Jindan">>) ELSE p2
         IN  [raised |-> "", url |-> BASE \o "/" \o ds.path \o "?" \o urlencode(p3)]

build_url(dataset_key, year, month, item_cd) ==
    IF dataset_key \notin DOMAIN DATASETS
    THEN [raised |-> "KeyError", url |-> ""]
    ELSE LET ds == DATASETS[dataset_key]
             p1 == << <<"area_cd", "11">>, <<"Gbn", "MONTH">>,
                      <<"year", ToString(year)>>, <<"month", Pad2(month)>> >>
             p2 == IF ds.path = "SystemIntro"
                   THEN Append(p1, <<"jin", "Jindan">>) ELSE p1
             p3 == Append(p2, <<"item_cd", ToString(ItemOr(item_cd, ds.default_item))>>)
         IN  [raised |-> "", url |-> BASE \o "/" \o ds.path \o "?" \o urlencode(p3)]

-----------------------------------------------------------------------------
(* 2. The 25 districts of Seoul *)

SEOUL_GU_MAP ==
    [Jongno     |-> <<"11110", "jongro">>,
     Jung       |-> <<"11140", "jung">>,
     Yongsan    |-> <<"11170", "yongsan">>,
     Seongdong  |-> <<"11200", "seongdong">>,
     Gwangjin   |-> <<"11215", "gwangjin">>,
     Dongdaemun |-> <<"11230", "dongdaemun">>,
     Jungnang   |-> <<"11260", "jungrang">>,
     Seongbuk   |-> <<"11290", "seongbuk">>,
     Gangbuk    |-> <<"11305", "gangbok">>,
     Dobong     |-> <<"11320", "dobong">>,
     Nowon      |-> <<"11350", "nowon">>,
     Eunpyeong  |-> <<"11380", "eunpyeung">>,
     Seodaemun  |-> <<"11410", "seodaemun">>,
     Mapo       |-> <<"11440", "mapo">>,
     Yangcheon  |-> <<"11470", "yangcheon">>,
     Gangseo    |-> <<"11500", "gangseo">>,
     Guro       |-> <<"11530", "guro">>,
     Geumcheon  |-> <<"11545", "geumcheon">>,
     Yeongdeungpo |-> <<"11560", "yeongdeungpo">>,
     Dongjak    |-> <<"11590", "dongjak">>,
     Gwanak     |-> <<"11620", "gwanak">>,
     Seocho     |-> <<"11650", "seocho">>,
     Gangnam    |-> <<"11680", "gangnam">>,
     Songpa     |-> <<"11710", "songpa">>,
     Gangdong   |-> <<"11740", "gangdong">>]

\* SEOUL_GU_MAP.get(gu_name, ("", "")) for a text gu_name
GuLookup(gu_name) ==
    IF Len(gu_name) = 1 /\ gu_name[1] \in DOMAIN SEOUL_GU_MAP
    THEN SEOUL_GU_MAP[gu_name[1]] ELSE <<"", "">>

-----------------------------------------------------------------------------
(* 3. score_weather *)

DigitChars == <<"0", "1", "2", "3", "4", "5", "6", "7", "8", "9">>
IsDigit(c) == \E i \in 1..10 : DigitChars[i] = c
\* the variant that is off by one
DigitVal_OneBased(c) == CHOOSE i \in 1..10 : DigitChars[i] = c

\* int() of a digit character
DigitVal(c) == (CHOOSE i \in 1..10 : DigitChars[i] = c) - 1

\* str.replace(" ", ""): drops the U+0020 characters and nothing else
RemoveSpaces(s) == SelectSeq(s, LAMBDA c : c # " ")

\* re.search(r"([+-])(\d)dangye", alt) scanning from position i:
\* the leftmost match, as <<sign character, digit character>>, or None
RECURSIVE ReSearchFrom(_, _)
ReSearchFrom(alt, i) ==
    IF i + 2 > Len(alt) THEN None
    ELSE IF alt[i] \in {"+", "-"} /\ IsDigit(alt[i + 1]) /\ alt[i + 2] = "dangye"
         THEN <<alt[i], alt[i + 1]>>
         ELSE ReSearchFrom(alt, i + 1)

\* the variant that applies the +1 offset to the stability phase too
score_weather_StabilityOffset(alt_text) ==
    IF alt_text = <<>> THEN None
    ELSE LET alt   == RemoveSpaces(alt_text)
             m     == ReSearchFrom(alt, 1)
             sign  == IF m = None THEN 0 ELSE IF m[1] = "-" THEN -1 ELSE 1
             step  == IF m = None THEN 0 ELSE DigitVal(m[2])
             first == IF alt = <<>> THEN "" ELSE alt[1]
         IN  IF first = "suchuk" THEN Some(-(step + 1))
             ELSE IF first = "hwakjang" THEN Some(step + 1)
             ELSE IF first = "anjeong" THEN Some(sign * (step + 1))
             ELSE None

score_weather(alt_text) ==
    IF alt_text = <<>> THEN None
    ELSE LET alt   == RemoveSpaces(alt_text)
             phase == IF alt # <<>> /\ alt[1] = "suchuk" THEN "suchuk"
                      ELSE IF alt # <<>> /\ alt[1] = "hwakjang" THEN "hwakjang"
                      ELSE IF alt # <<>> /\ alt[1] = "anjeong" THEN "anjeong"
                      ELSE "None"
             m     == ReSearchFrom(alt, 1)
             sign  == IF m = None THEN 0 ELSE IF m[1] = "-" THEN -1 ELSE 1
             step  == IF m = None THEN 0 ELSE DigitVal(m[2])
         IN  IF phase = "suchuk" THEN Some(-(step + 1))
             ELSE IF phase = "hwakjang" THEN Some(step + 1)
             ELSE IF phase = "anjeong" THEN Some(sign * step)
             ELSE None

-----------------------------------------------------------------------------
(* 4. parse_table_icons *)

IsSpace(c) == c \in {" ", "\t", "\n"}

\* str.strip(): drops leading and trailing whitespace
RECURSIVE LStrip(_)
LStrip(s) == IF s # <<>> /\ IsSpace(s[1]) THEN LStrip(Tail(s)) ELSE s
RECURSIVE RStrip(_)
RStrip(s) ==
    IF s # <<>> /\ IsSpace(s[Len(s)]) THEN RStrip(SubSeq(s, 1, Len(s) - 1)) ELSE s
Strip(s) == RStrip(LStrip(s))

\* A rendered page is the sequence of its table[id*='GridView'] elements; a
\* table is the sequence of its tr elements; a tr is
\* [tds |-> the inner texts of its td cells, imgs |-> the alt of each img,
\* None when the attribute is missing].

\* the variant that takes the last of the largest tables
LargestTable_LastOnTie(tables) ==
    CHOOSE i \in 1..Len(tables) :
        /\ \A j \in 1..Len(tables) : Len(tables[j]) <= Len(tables[i])
        /\ \A j \in (i + 1)..Len(tables) : Len(tables[j]) < Len(tables[i])

\* max(range(len(sizes)), key=...): the first index of a largest table
LargestTable(tables) ==
    CHOOSE i \in 1..Len(tables) :
        /\ \A j \in 1..Len(tables) : Len(tables[j]) <= Len(tables[i])
        /\ \A j \in 1..(i - 1) : Len(tables[j]) < Len(tables[i])

\* the non-empty stripped alt texts of a row, in document order
RECURSIVE RowAlts(_)
RowAlts(imgs) ==
    IF imgs = <<>> THEN <<>>
    ELSE LET a   == imgs[1]
             alt == Strip(IF a = None THEN <<>> ELSE a[1])
         IN  (IF alt # <<>> THEN <<alt>> ELSE <<>>) \o RowAlts(Tail(imgs))

\* the variant that keeps one entry per table row (a list, not a dict)
DictPut_Append(data, region, value) ==
    Append(data, [region |-> region, weather |-> value.weather, mom |-> value.mom])

\* data[region] = value on an insertion-ordered dict
DictPut(data, region, value) ==
    LET e == [region |-> region, weather |-> value.weather, mom |-> value.mom]
    IN  IF \E i \in 1..Len(data) : data[i].region = region
        THEN [i \in 1..Len(data) |->
                 IF data[i].region = region THEN e ELSE data[i]]
        ELSE Append(data, e)

RECURSIVE ParseRows(_, _, _)
ParseRows(trs, i, data) ==
    IF i > Len(trs) THEN data
    ELSE LET tds    == trs[i].tds
             region == Strip(tds[1])
             alts   == RowAlts(trs[i].imgs)
             weather_alt == IF Len(alts) >= 1 THEN alts[1] ELSE <<>>
             mom_alt     == IF Len(alts) >= 2 THEN alts[Len(alts)] ELSE <<>>
         IN  IF Len(tds) < 2 THEN ParseRows(trs, i + 1, data)
             ELSE IF region = <<>> \/ region = <<"jiyeokmyeong">>
                  THEN ParseRows(trs, i + 1, data)
                  ELSE ParseRows(trs, i + 1,
                           DictPut(data, region,
                                   [weather |-> weather_alt, mom |-> mom_alt]))

parse_table_icons(page) ==
    IF Len(page) = 0 THEN <<>>
    ELSE ParseRows(page[LargestTable(page)], 1, <<>>)

-----------------------------------------------------------------------------
(* 5. month utilities *)

\* tuple comparison (y, m) <= (ey, em) and its strict form
PeriodLE(a, b) == a[1] < b[1] \/ (a[1] = b[1] /\ a[2] <= b[2])
PeriodGT(a, b) == ~PeriodLE(a, b)

\* the variant that never rolls the year over
MonthIterStep_NoRollover(ym) == <<ym[1], ym[2] + 1>>

\* month_iter's step between two yields: m += 1, roll the year over after 12
MonthIterStep(ym) ==
    IF ym[2] + 1 > 12 THEN <<ym[1] + 1, 1>> ELSE <<ym[1], ym[2] + 1>>

\* month_iter's loop condition
MonthIterHasNext(ym, end_ym) == PeriodLE(ym, end_ym)

\* the variant that never rolls the year over
next_month_NoRollover(year, month) == <<year, month + 1>>

next_month(year, month) ==
    IF month + 1 > 12 THEN <<year + 1, 1>> ELSE <<year, month + 1>>

-----------------------------------------------------------------------------
(* 6. rows and the Supabase table *)

\* the dict collect appends for one (gu_name, v) of the parsed table
MakeRow(dataset_key, item_cd, y, m, url, e) ==
    [dataset       |-> dataset_key,
     item_cd       |-> ItemOr(item_cd, DATASETS[dataset_key].default_item),
     year          |-> y,
     month         |-> m,
     region_name   |-> e.region,
     region_code   |-> GuLookup(e.region)[1],
     region_alias  |-> GuLookup(e.region)[2],
     weather       |-> e.weather,
     weather_score |-> score_weather(e.weather),
     mom           |-> e.mom,
     url           |-> url]

\* the rows of one period, in table order
PeriodRows(dataset_key, item_cd, y, m, url, table) ==
    [i \in 1..Len(table) |-> MakeRow(dataset_key, item_cd, y, m, url, table[i])]

\* the logical key of a row
Key(r) == <<r.dataset, r.region_name, r.year, r.month>>

\* the gateway's upsert of a batch: each row replaces the stored row of its key
RECURSIVE GatewayUpsert(_, _)
GatewayUpsert(table, batch) ==
    IF batch = <<>> THEN table
    ELSE GatewayUpsert({r \in table : Key(r) # Key(batch[1])} \union {batch[1]},
                       Tail(batch))

\* the variant that sends one request per row
upsert_krihs_rows_PerRow(table, sent, rws, creds, ok) ==
    IF rws = <<>> THEN [store |-> table, batches |-> sent]
    ELSE IF ~creds THEN [store |-> table, batches |-> sent]
    ELSE [store   |-> IF ok THEN GatewayUpsert(table, rws) ELSE table,
          batches |-> sent \o [i \in 1..Len(rws) |->
                                   [rows |-> <<rws[i]>>, applied |-> ok]]]

\* upsert_krihs_rows: nothing is sent for an empty list or without credentials;
\* otherwise one upsert request, which the gateway applies (ok) or fails
upsert_krihs_rows(table, sent, rws, creds, ok) ==
    IF rws = <<>> THEN [store |-> table, batches |-> sent]
    ELSE IF ~creds THEN [store |-> table, batches |-> sent]
    ELSE [store   |-> IF ok THEN GatewayUpsert(table, rws) ELSE table,
          batches |-> Append(sent, [rows |-> rws, applied |-> ok])]

\* the stored rows of a dataset's period
StoredRows(table, dataset_key, p) ==
    {r \in table : r.dataset = dataset_key /\ <<r.year, r.month>> = p}

\* the periods of the dataset's stored rows
StoredPeriods(table, dataset_key) ==
    {<<r.year, r.month>> : r \in {x \in table : x.dataset = dataset_key}}

\* get_latest_ym_from_supabase: None without credentials, on a query error and
\* for a dataset without rows; otherwise the first row of the query ordered by
\* year and month descending
get_latest_ym_from_supabase(table, dataset_key, creds, ok) ==
    IF ~creds THEN None
    ELSE IF ~ok THEN None
    ELSE IF StoredPeriods(table, dataset_key) = {} THEN None
    ELSE CHOOSE p \in StoredPeriods(table, dataset_key) :
             \A q \in StoredPeriods(table, dataset_key) : PeriodLE(q, p)

-----------------------------------------------------------------------------
(* 7. Bounds and inputs *)

MaxCalls   == 2    \* calls of collect / collect_incremental in one behaviour
MaxPeriods == 2    \* calendar periods the calls range over
MaxLen     == 4    \* tokens in a descriptor given to score_weather

\* the first period the calls range over; the range crosses a year boundary
FirstYm == <<2015, 12>>

RECURSIVE PeriodsFrom(_, _)
PeriodsFrom(ym, n) ==
    IF n = 0 THEN {} ELSE {ym} \union PeriodsFrom(MonthIterStep(ym), n - 1)

Periods == PeriodsFrom(FirstYm, MaxPeriods)

\* the default_start_ym arguments: the first period, and the one after the
\* last period "today" may be
DefaultStarts == {FirstYm} \union (PeriodsFrom(FirstYm, MaxPeriods + 1) \ Periods)

\* collect_incremental is called for these keys; collect is called directly for
\* "market_consume" and the one-period window [FirstYm, FirstYm]
RunDatasets == {"house_rent", "no_such_dataset"}
RunItems    == {None}

\* pages the site may render
T(x)   == Some(x)
PageNoGrid == <<>>
PageOne ==
    << << [tds |-> << <<"jiyeokmyeong">>, <<"x">> >>, imgs |-> <<>>] >>,
       << [tds |-> << <<"jiyeokmyeong">>, <<"x">> >>, imgs |-> <<>>],
          [tds |-> << <<"x">> >>, imgs |-> << T(<<"suchuk">>) >>],
          [tds |-> << <<" ", "Gangnam", "\n">>, <<"x">> >>,
           imgs |-> << None, T(<<"hwakjang", "+", "1", "dangye">>), T(<<" ">>),
                       T(<<"x">>) >>] >> >>
PageDup ==
    << << [tds |-> << <<"Gangnam">>, <<"x">> >>,
           imgs |-> << T(<<"anjeong", "-", "2", "dangye">>) >>],
          [tds |-> << <<"Sejong">>, <<"x">> >>,
           imgs |-> << T(<<"suchuk", " ", "+", "4", "dangye">>), T(<<"x">>) >>],
          [tds |-> << <<"Gangnam">>, <<"x">> >>,
           imgs |-> << T(<<"suchuk", "+", "3", "dangye">>) >>] >> >>
SamplePages == {PageNoGrid, PageOne, PageDup}

\* what can fail while one period's page is processed (lines 260-263)
PeriodFailures == {"page.goto", "page.wait_for_timeout", "parse_table_icons"}

SwAlphabet == {"suchuk", "hwakjang", "anjeong", "+", "-", "3", "9",
               "dangye", " ", "\t"}
\* the texts of up to MaxLen tokens
Descriptors == UNION {[1..n -> SwAlphabet] : n \in 0..MaxLen}

UrlInputs ==
    [dataset_key : DOMAIN DATASETS \union {"no_such_dataset"},
     year        : {2015, 2024},
     month       : 0..13,
     item_cd     : {None, Some(0), Some(5)}]

-----------------------------------------------------------------------------
(* 8. The collector *)

NoRun == [kind |-> "none", dataset_key |-> "", item_cd |-> None,
          save_supabase |-> FALSE, creds |-> FALSE, lookup_ok |-> FALSE,
          default_start_ym |-> None, latest |-> None,
          start_ym |-> None, end_ym |-> None]
NoSession == [pw |-> "none", browser |-> "none", ctx |-> "none"]
UrlIdle == [raised |-> "not called", url |-> ""]
SwIdle  == [called |-> FALSE]

MiIdle == [start |-> None, end |-> None, ym |-> None, out |-> <<>>,
           done |-> FALSE, nm |-> None]
PtIdle == [called |-> FALSE]

PureIdle ==
    /\ u_in = None /\ u_out = UrlIdle
    /\ sw_in = None /\ sw_out = SwIdle
    /\ mi = MiIdle /\ pt = PtIdle

CollectorIdle ==
    /\ pc = "idle" /\ run = NoRun /\ cur = None /\ rows = <<>>
    /\ pages = 0 /\ session = NoSession /\ fetched = {} /\ batches = <<>>
    /\ ret = None /\ exc = "" /\ store = {} /\ store0 = {} /\ ncalls = 0
    /\ gaps = {}

Init == CollectorIdle /\ PureIdle

CallReady == pc \in {"idle", "done", "raised"} /\ ncalls < MaxCalls

\* the periods for which the call that just ended appended no rows although it
\* appended rows of a later period, when its rows were persisted
NewGaps(dataset_key, done, rws, sent) ==
    IF sent # <<>> /\ sent[Len(sent)].applied
    THEN {<<dataset_key, q>> : q \in
             {p \in done :
                 /\ \A i \in 1..Len(rws) : <<rws[i].year, rws[i].month>> # p
                 /\ \E i \in 1..Len(rws) : PeriodGT(<<rws[i].year, rws[i].month>>, p)}}
    ELSE {}

\* what the calls so far have left as gaps when the next call begins: periods
\* fetched without rows before a persisted later period, still without stored
\* rows
GapsAtCall ==
    {g \in gaps \union NewGaps(run.dataset_key, fetched, rows, batches) :
        StoredRows(store, g[1], g[2]) = {}}

\* collect up to the loop (lines 249-254): the accumulator is created, the
\* playwright session is entered, the browser launched and the context opened
EnterCollect(r) ==
    /\ pc' = "loop" /\ run' = r /\ cur' = r.start_ym /\ rows' = <<>>
    /\ pages' = 0
    /\ session' = [pw |-> "running", browser |-> "open", ctx |-> "open"]
    /\ fetched' = {} /\ batches' = <<>> /\ ret' = None /\ exc' = ""
    /\ store0' = store /\ ncalls' = ncalls + 1
    /\ gaps' = GapsAtCall
    /\ UNCHANGED <<store, u_in, u_out, sw_in, sw_out, mi, pt>>

\* a direct call of collect
collect(dataset_key, start_ym, end_ym, item_cd, save_supabase, creds) ==
    /\ CallReady
    /\ EnterCollect([kind |-> "collect", dataset_key |-> dataset_key,
                     item_cd |-> item_cd, save_supabase |-> save_supabase,
                     creds |-> creds, lookup_ok |-> FALSE,
                     default_start_ym |-> None, latest |-> None,
                     start_ym |-> start_ym, end_ym |-> end_ym])

\* the variant that always starts at the default
PlanStart_IgnoresLatest(latest, default_start_ym) == default_start_ym

\* the first period of the window collect_incremental plans (lines 357-362)
PlanStart(latest, default_start_ym) ==
    IF latest = None THEN default_start_ym
    ELSE next_month(latest[1], latest[2])

\* collect_incremental (lines 351-380) up to the loop of collect; with an empty
\* window it returns [] at once.  end_ym is always passed, as __main__ does
\* (today's period); save_supabase keeps its default, True.
collect_incremental(dataset_key, default_start_ym, end_ym, item_cd, creds, lookup_ok) ==
    /\ CallReady
    /\ LET latest   == get_latest_ym_from_supabase(store, dataset_key, creds, lookup_ok)
           start_ym == PlanStart(latest, default_start_ym)
           r == [kind |-> "incremental", dataset_key |-> dataset_key,
                 item_cd |-> item_cd, save_supabase |-> TRUE,
                 creds |-> creds, lookup_ok |-> lookup_ok,
                 default_start_ym |-> default_start_ym, latest |-> latest,
                 start_ym |-> start_ym, end_ym |-> end_ym]
       IN  IF PeriodGT(start_ym, end_ym)
           THEN /\ pc' = "done" /\ run' = r /\ cur' = None /\ rows' = <<>>
                /\ pages' = 0 /\ session' = NoSession
                /\ fetched' = {} /\ batches' = <<>> /\ ret' = Some(<<>>)
                /\ exc' = "" /\ store0' = store /\ ncalls' = ncalls + 1
                /\ gaps' = GapsAtCall
                /\ UNCHANGED <<store, u_in, u_out, sw_in, sw_out, mi, pt>>
           ELSE EnterCollect(r)

\* leaving the with block by an exception: the playwright session is exited,
\* ctx.close() and browser.close() (lines 289-290) are not reached
SessionAfterRaise(s) == [s EXCEPT !.pw = "stopped"]

\* leaving the with block normally (lines 289-290 and the end of the block)
SessionAfterLoop(s) == [pw |-> "stopped", browser |-> "closed", ctx |-> "closed"]

\* one iteration begins (lines 256-258): the next period, its URL, a new page
collect_open_page ==
    /\ pc = "loop"
    /\ MonthIterHasNext(cur, run.end_ym)
    /\ LET u == build_url(run.dataset_key, cur[1], cur[2], run.item_cd)
       IN  IF u.raised # ""
           THEN /\ pc' = "raised" /\ exc' = u.raised
                /\ session' = SessionAfterRaise(session)
                /\ UNCHANGED pages
           ELSE /\ pc' = "page" /\ pages' = pages + 1
                /\ UNCHANGED <<exc, session>>
    /\ UNCHANGED <<run, cur, rows, fetched, batches, ret, store, store0, ncalls,
                   gaps, u_in, u_out, sw_in, sw_out, mi, pt>>

\* the page renders and is parsed (lines 259-287): its rows are appended, the
\* page is closed, the generator steps
collect_process_page(dom) ==
    /\ pc = "page"
    /\ LET u     == build_url(run.dataset_key, cur[1], cur[2], run.item_cd)
           table == parse_table_icons(dom)
       IN  rows' = rows \o PeriodRows(run.dataset_key, run.item_cd,
                                      cur[1], cur[2], u.url, table)
    /\ fetched' = fetched \union {cur}
    /\ pages' = pages - 1
    /\ cur' = MonthIterStep(cur)
    /\ pc' = "loop"
    /\ UNCHANGED <<run, session, batches, ret, exc, store, store0, ncalls,
                   gaps, u_in, u_out, sw_in, sw_out, mi, pt>>

\* goto, the settle wait or the extraction raises (lines 259-287): there is no
\* except clause, so finally closes the page and the exception leaves collect
collect_page_fails(stage) ==
    /\ pc = "page"
    /\ fetched' = fetched \union {cur}
    /\ pages' = pages - 1
    /\ session' = SessionAfterRaise(session)
    /\ exc' = stage
    /\ pc' = "raised"
    /\ UNCHANGED <<run, cur, rows, batches, ret, store, store0, ncalls,
                   gaps, u_in, u_out, sw_in, sw_out, mi, pt>>

\* the generator is exhausted (lines 289-303): context and browser are closed,
\* the rows are upserted when save_supabase is set, and returned.  The CSV
\* export (lines 292-298) writes a file and changes nothing modelled here.
collect_finish(ok) ==
    /\ pc = "loop"
    /\ ~MonthIterHasNext(cur, run.end_ym)
    /\ session' = SessionAfterLoop(session)
    /\ LET up == IF run.save_supabase
                 THEN upsert_krihs_rows(store, batches, rows, run.creds, ok)
                 ELSE [store |-> store, batches |-> batches]
       IN  /\ store' = up.store /\ batches' = up.batches
    /\ ret' = Some(rows)
    /\ pc' = "done"
    /\ UNCHANGED <<run, cur, rows, pages, fetched, exc, store0, ncalls,
                   gaps, u_in, u_out, sw_in, sw_out, mi, pt>>

Next ==
    \/ \E sv \in BOOLEAN :
          collect("market_consume", FirstYm, FirstYm, None, sv, TRUE)
    \/ \E d \in RunDatasets, s \in DefaultStarts, e \in Periods, i \in RunItems,
          c \in BOOLEAN, ok \in BOOLEAN : collect_incremental(d, s, e, i, c, ok)
    \/ collect_open_page
    \/ \E dom \in SamplePages : collect_process_page(dom)
    \/ \E stage \in PeriodFailures : collect_page_fails(stage)
    \/ \E ok \in BOOLEAN : collect_finish(ok)

Spec == Init /\ [][Next]_vars

-----------------------------------------------------------------------------
(* 9. build_url and score_weather called on their own *)

InitUrl ==
    /\ CollectorIdle
    /\ u_in \in UrlInputs /\ u_out = UrlIdle
    /\ sw_in = None /\ sw_out = SwIdle
    /\ mi = MiIdle /\ pt = PtIdle

CallBuildUrl ==
    /\ u_out = UrlIdle
    /\ u_out' = build_url(u_in.dataset_key, u_in.year, u_in.month, u_in.item_cd)
    /\ UNCHANGED <<pc, run, cur, rows, pages, session, fetched, batches, ret,
                   exc, store, store0, ncalls, gaps, u_in, sw_in, sw_out, mi, pt>>

SpecUrl == InitUrl /\ [][CallBuildUrl]_vars

InitScore ==
    /\ CollectorIdle
    /\ u_in = None /\ u_out = UrlIdle
    /\ sw_in \in Descriptors /\ sw_out = SwIdle
    /\ mi = MiIdle /\ pt = PtIdle

\* score_weather on the descriptor, as collect calls it for a table entry
\* (lines 267-283)
CallScoreWeather ==
    /\ sw_out = SwIdle
    /\ sw_out' = [called |-> TRUE,
                  score  |-> score_weather(sw_in),
                  row    |-> MakeRow("house_rent", None, 2015, 11,
                                     build_url("house_rent", 2015, 11, None).url,
                                     [region |-> <<"Gangnam">>,
                                      weather |-> sw_in, mom |-> <<>>])]
    /\ UNCHANGED <<pc, run, cur, rows, pages, session, fetched, batches, ret,
                   exc, store, store0, ncalls, gaps, u_in, u_out, sw_in, mi, pt>>

SpecScore == InitScore /\ [][CallScoreWeather]_vars

-----------------------------------------------------------------------------
(* 10. Properties of the collector (checked under Spec) *)

\* periods as month counts, for comparing them
Ord(p) == p[1] * 12 + p[2]

\* the periods of the window [s, e]
Window(s, e) == {p \in Periods : Ord(s) <= Ord(p) /\ Ord(p) <= Ord(e)}

\* the calendar successor of a period: the least valid period after it
Successor(p) ==
    CHOOSE q \in {p[1], p[1] + 1} \X (1..12) :
        /\ Ord(q) > Ord(p)
        /\ \A x \in {p[1], p[1] + 1} \X (1..12) : Ord(x) > Ord(p) => Ord(q) <= Ord(x)

CallEnded == pc \in {"done", "raised"} /\ run.kind # "none"

\* C1: a failure while one period is fetched or rendered never aborts the run:
\* no exception of page.goto, the settle wait or the extraction leaves collect,
\* every period of the window is still processed and collect returns the rows.
C1_PeriodFailureNeverAborts ==
    /\ exc \notin PeriodFailures
    /\ (CallEnded /\ exc # "KeyError") =>
           /\ ret # None
           /\ Ord(run.start_ym) <= Ord(run.end_ym) =>
                  fetched = Window(run.start_ym, run.end_ym)

\* C2: collect_incremental plans [default_start_ym, end_ym] when the lookup
\* reports no prior period and [successor(P), end_ym] when it reports P; when
\* the start is after end_ym (as when P = end_ym) nothing is fetched, nothing
\* is upserted and [] is returned without error.
C2_IncrementalWindow ==
    run.kind = "incremental" =>
        /\ run.latest = None => run.start_ym = run.default_start_ym
        /\ run.latest # None => run.start_ym = Successor(run.latest)
        /\ run.latest = run.end_ym => Ord(run.start_ym) > Ord(run.end_ym)
        /\ Ord(run.start_ym) > Ord(run.end_ym) =>
               /\ pc = "done" /\ ret = Some(<<>>) /\ exc = ""
               /\ fetched = {} /\ pages = 0 /\ session = NoSession
               /\ batches = <<>> /\ store = store0
        /\ Ord(run.start_ym) <= Ord(run.end_ym) =>
               /\ session # NoSession
               /\ fetched \subseteq Window(run.start_ym, run.end_ym)
               /\ pc = "done" => fetched = Window(run.start_ym, run.end_ym)

\* C2's case: the lookup reported P = end_ym and the call returned []
C2_Witness ==
    /\ run.kind = "incremental" /\ run.latest # None /\ run.latest = run.end_ym
    /\ pc = "done" /\ ret = Some(<<>>)

\* C3: a collect_incremental run fetches only periods after the highest period
\* the dataset had rows for when the run started, whatever the lookup's outcome.
C3_NeverRefetch ==
    run.kind = "incremental" =>
        \A p \in fetched : \A q \in StoredPeriods(store0, run.dataset_key) :
            Ord(p) > Ord(q)

\* the rows of a batch, as a set
RowSet(b) == {b[i] : i \in 1..Len(b)}

\* C6: within one run the upsert is issued at most once, only when the loop has
\* processed the whole window, with all the rows the run collected as one
\* batch; while the run is in the loop, or has been interrupted there, nothing
\* of it has been persisted.
C6_PersistOnceAfterLoop ==
    /\ Len(batches) <= 1
    /\ pc \in {"loop", "page", "raised"} => batches = <<>> /\ store = store0
    /\ store # store0 => batches # <<>>
    /\ batches # <<>> =>
           /\ pc = "done"
           /\ ret = Some(batches[1].rows)
           /\ fetched = Window(run.start_ym, run.end_ym)
           /\ {<<r.year, r.month>> : r \in RowSet(batches[1].rows)} \subseteq fetched

\* C6's case: one batch holding the rows of two periods has been persisted
C6_Witness ==
    /\ pc = "done" /\ Len(batches) = 1 /\ store # store0
    /\ Cardinality({<<r.year, r.month>> : r \in RowSet(batches[1].rows)}) >= 2

C8_ResourcesReleased ==
    /\ pc = "loop" => pages = 0
    /\ (CallEnded /\ session # NoSession) =>
           /\ pages = 0
           /\ session.ctx = "closed"
           /\ session.browser = "closed"
           /\ session.pw = "stopped"

-----------------------------------------------------------------------------
(* 11. Properties of score_weather (checked under SpecScore) *)

\* the text without the characters of cs
RECURSIVE Without(_, _)
Without(t, cs) ==
    IF t = <<>> THEN <<>>
    ELSE (IF t[1] \in cs THEN <<>> ELSE <<t[1]>>) \o Without(Tail(t), cs)

StepOf == [c \in {"0", "1", "2", "3", "4", "5", "6", "7", "8", "9"} |->
              CASE c = "0" -> 0 [] c = "1" -> 1 [] c = "2" -> 2 [] c = "3" -> 3
                [] c = "4" -> 4 [] c = "5" -> 5 [] c = "6" -> 6 [] c = "7" -> 7
                [] c = "8" -> 8 [] c = "9" -> 9]

\* where the pattern [+-]<digit>dangye occurs in t
Occurrences(t) ==
    {i \in 1..(Len(t) - 2) :
        t[i] \in {"+", "-"} /\ t[i + 1] \in DOMAIN StepOf /\ t[i + 2] = "dangye"}

\* the icon-to-score mapping on a text t: absent for the empty text; N and sign
\* from the leftmost occurrence of the pattern, 0 and 0 when there is none;
\* -(N+1), +(N+1) or sign*N by the leading phase; absent for any other
MappedScore(t) ==
    IF t = <<>> THEN None
    ELSE LET occ  == Occurrences(t)
             at   == CHOOSE i \in occ : \A j \in occ : i <= j
             N    == IF occ = {} THEN 0 ELSE StepOf[t[at + 1]]
             sign == IF occ = {} THEN 0 ELSE IF t[at] = "+" THEN 1 ELSE -1
         IN  CASE t[1] = "suchuk"   -> Some(0 - (N + 1))
               [] t[1] = "hwakjang" -> Some(N + 1)
               [] t[1] = "anjeong"  -> Some(sign * N)
               [] OTHER             -> None

\* C4 as stated: score_weather is the mapping applied to the descriptor with
\* its whitespace stripped, whether stripping trims the ends of the text or
\* removes every whitespace character of it.
C4_StripWhitespace ==
    sw_out.called =>
        \/ sw_out.score = MappedScore(Strip(sw_in))
        \/ sw_out.score = MappedScore(Without(sw_in, {" ", "\t", "\n"}))

\* C4 amended: score_weather is the mapping applied to the descriptor with its
\* U+0020 space characters removed (all of them, and no other whitespace).
C4_RemoveSpacesOnly ==
    sw_out.called => sw_out.score = MappedScore(Without(sw_in, {" "}))

\* C4's case: a descriptor whose phase follows a space has been scored
C4_Witness ==
    /\ sw_out.called
    /\ Len(sw_in) >= 2 /\ sw_in[1] = " " /\ sw_in[2] = "anjeong"
    /\ sw_out.score = Some(0)

\* C5 as stated: the weather_score of an assembled row is absent or in [-4, 4].
C5_ScoreInRange ==
    sw_out.called =>
        \/ sw_out.row.weather_score = None
        \/ sw_out.row.weather_score[1] \in -4..4

\* C5 amended: the weather_score of an assembled row is absent or an integer
\* in [-10, 10], and it is in [-4, 4] when the descriptor holds no digit
\* above 3.
C5_ScoreRangeUnclamped ==
    sw_out.called =>
        \/ sw_out.row.weather_score = None
        \/ /\ sw_out.row.weather_score[1] \in -10..10
           /\ (\A i \in 1..Len(sw_out.row.weather) :
                   sw_out.row.weather[i] \notin {"4", "5", "6", "7", "8", "9"})
              => sw_out.row.weather_score[1] \in -4..4

\* C5's case: a row whose descriptor has step 9 has been assembled
C5_Witness ==
    /\ sw_out.called
    /\ sw_out.row.weather = <<"hwakjang", "+", "9", "dangye">>
    /\ sw_out.row.weather_score = Some(10)

-----------------------------------------------------------------------------
(* 12. Properties of build_url (checked under SpecUrl) *)

UrlCalled == u_out # UrlIdle

\* C9: an unregistered dataset key fails with UnknownDatasetError, a month
\* outside 1..12 fails with InvalidPeriodError, and no URL is returned.
C9_BuildUrlValidates ==
    UrlCalled =>
        /\ u_in.dataset_key \notin DOMAIN DATASETS =>
               u_out.raised = "UnknownDatasetError" /\ u_out.url = ""
        /\ (u_in.dataset_key \in DOMAIN DATASETS /\ u_in.month \notin 1..12) =>
               u_out.raised = "InvalidPeriodError" /\ u_out.url = ""

TwoDigits == <<"01", "02", "03", "04", "05", "06", "07", "08", "09", "10",
               "11", "12">>

UrlHead ==
    BASE \o "/" \o DATASETS[u_in.dataset_key].path
         \o "?area_cd=11&Gbn=MONTH&year=" \o ToString(u_in.year)
         \o "&month=" \o TwoDigits[u_in.month]

UrlJin == IF DATASETS[u_in.dataset_key].path = "SystemIntro" THEN "&jin=Jindan" ELSE ""

ValidUrlInput == u_in.dataset_key \in DOMAIN DATASETS /\ u_in.month \in 1..12

\* C10 as stated: item_cd is the override whenever one is given, and jin=Jindan
\* comes after item_cd.
C10_JinAfterItem ==
    (UrlCalled /\ ValidUrlInput) =>
        /\ u_out.raised = ""
        /\ u_out.url = UrlHead \o "&item_cd="
               \o ToString(IF u_in.item_cd # None THEN u_in.item_cd[1]
                           ELSE DATASETS[u_in.dataset_key].default_item)
               \o UrlJin

\* C10 amended: jin=Jindan comes between month and item_cd, which is last;
\* item_cd is the override when a non-zero one is given and the default
\* otherwise.
C10_JinBeforeItem ==
    (UrlCalled /\ ValidUrlInput) =>
        /\ u_out.raised = ""
        /\ u_out.url = UrlHead \o UrlJin \o "&item_cd="
               \o ToString(IF u_in.item_cd \notin {None, Some(0)} THEN u_in.item_cd[1]
                           ELSE DATASETS[u_in.dataset_key].default_item)

\* C10's case: the URL of the composite dataset with an override has been built
C10_Witness ==
    /\ UrlCalled /\ u_out.raised = ""
    /\ u_in.dataset_key = "market_consume" /\ u_in.month \in 1..9
    /\ u_in.item_cd = Some(5)

-----------------------------------------------------------------------------
(* 13. month_iter and next_month called on their own *)

MaxYears == 2    \* calendar years the bounds of month_iter range over

MonthInputs == (FirstYm[1]..(FirstYm[1] + MaxYears - 1)) \X (1..12)

\* mi: the arguments, the generator's (y, m), what it has yielded, whether it
\* has returned, and next_month(start) once that has been called
InitMonth ==
    /\ CollectorIdle
    /\ u_in = None /\ u_out = UrlIdle
    /\ sw_in = None /\ sw_out = SwIdle
    /\ pt = PtIdle
    /\ mi \in {[start |-> s, end |-> e, ym |-> s, out |-> <<>>,
                done |-> FALSE, nm |-> None] : s \in MonthInputs, e \in MonthInputs}

MonthOthers == <<pc, run, cur, rows, pages, session, fetched, batches, ret, exc,
                 store, store0, ncalls, gaps, u_in, u_out, sw_in, sw_out, pt>>

\* lines 218-223: the loop condition holds, (y, m) is yielded and stepped
month_iter_yield ==
    /\ ~mi.done
    /\ MonthIterHasNext(mi.ym, mi.end)
    /\ mi' = [mi EXCEPT !.out = Append(mi.out, mi.ym),
                        !.ym  = MonthIterStep(mi.ym)]
    /\ UNCHANGED MonthOthers

\* line 218: the loop condition fails and the generator returns
month_iter_return ==
    /\ ~mi.done
    /\ ~MonthIterHasNext(mi.ym, mi.end)
    /\ mi' = [mi EXCEPT !.done = TRUE]
    /\ UNCHANGED MonthOthers

\* next_month(*start)
call_next_month ==
    /\ mi.nm = None
    /\ mi' = [mi EXCEPT !.nm = Some(next_month(mi.start[1], mi.start[2]))]
    /\ UNCHANGED MonthOthers

NextMonth == month_iter_yield \/ month_iter_return \/ call_next_month

SpecMonth == InitMonth /\ [][NextMonth]_vars

\* the period whose month count is n
FromOrd(n) == <<(n - 1) \div 12, ((n - 1) % 12) + 1>>

\* how many periods p have start <= p <= end
WindowSize(s, e) == IF Ord(e) >= Ord(s) THEN Ord(e) - Ord(s) + 1 ELSE 0

\* C11: month_iter(start, end) terminates and yields exactly the periods from
\* start through end, ascending without gaps or repeats, each the next_month
\* of the one before, and nothing when start > end; next_month(y, m) is
\* (y, m+1) for m < 12 and (y+1, 1) for m = 12.
C11_MonthIter ==
    mi.start # None =>
        LET n     == Len(mi.out)
            total == WindowSize(mi.start, mi.end)
        IN  /\ n <= total
            /\ \A i \in 1..n : mi.out[i] = FromOrd(Ord(mi.start) + i - 1)
            /\ \A i \in 1..(n - 1) :
                   mi.out[i + 1] = next_month(mi.out[i][1], mi.out[i][2])
            /\ mi.done => n = total
            /\ ~mi.done => /\ mi.ym = FromOrd(Ord(mi.start) + n)
                           /\ n < total => ENABLED month_iter_yield
                           /\ n = total => ENABLED month_iter_return
            /\ mi.nm # None =>
                   mi.nm[1] = IF mi.start[2] < 12
                              THEN <<mi.start[1], mi.start[2] + 1>>
                              ELSE <<mi.start[1] + 1, 1>>

\* C11's case: the window (2015,11)..(2016,2) has been iterated to its end
C11_Witness ==
    /\ mi.done
    /\ mi.start = <<2015, 11>> /\ mi.end = <<2016, 2>>
    /\ mi.out = << <<2015, 11>>, <<2015, 12>>, <<2016, 1>>, <<2016, 2>> >>

-----------------------------------------------------------------------------
(* 14. parse_table_icons called on its own *)

MaxRows == 2    \* tr elements of one candidate table

Header == <<"jiyeokmyeong">>

\* rows a grid may hold: the caption row, a one-cell row, a row whose first
\* cell is blank, two rows for the same district (the first with padding
\* around the name and five img elements), a row without img
RowCaption == [tds |-> << Header, <<"x">> >>, imgs |-> <<>>]
RowOneCell == [tds |-> << <<"Mapo">> >>, imgs |-> << T(<<"suchuk">>) >>]
RowBlank   == [tds |-> << <<" ", "\t">>, <<"x">> >>, imgs |-> << T(<<"suchuk">>) >>]
RowGangnam == [tds |-> << <<" ", "Gangnam", "\n">>, <<"x">> >>,
               imgs |-> << None, T(<<"hwakjang", "+", "1", "dangye">>), T(<<" ">>),
                           T(<<"mid">>), T(<<"up", " ">>) >>]
RowGangnamAgain == [tds |-> << <<"Gangnam">>, <<"x">> >>,
                    imgs |-> << T(<<"anjeong">>) >>]
RowSejong  == [tds |-> << <<"Sejong">>, <<"x">>, <<"y">> >>, imgs |-> <<>>]
SampleRows == {RowCaption, RowOneCell, RowBlank, RowGangnam, RowGangnamAgain,
               RowSejong}

\* the tables of up to MaxRows rows
SampleTables == UNION {[1..n -> SampleRows] : n \in 0..MaxRows}

\* pages with no, one or two candidate tables
ParsePages == UNION {[1..n -> SampleTables] : n \in {0, 1, 2}}

InitParse ==
    /\ CollectorIdle
    /\ u_in = None /\ u_out = UrlIdle
    /\ sw_in = None /\ sw_out = SwIdle
    /\ mi = MiIdle
    /\ pt \in {[called |-> FALSE, page |-> p] : p \in ParsePages}

CallParseTableIcons ==
    /\ ~pt.called
    /\ pt' = [called |-> TRUE, page |-> pt.page, data |-> parse_table_icons(pt.page)]
    /\ UNCHANGED <<pc, run, cur, rows, pages, session, fetched, batches, ret, exc,
                   store, store0, ncalls, gaps, u_in, u_out, sw_in, sw_out, mi>>

SpecParse == InitParse /\ [][CallParseTableIcons]_vars

\* the table the claim selects: most rows, the first such
IsSelected(page, k) ==
    /\ k \in 1..Len(page)
    /\ \A j \in 1..Len(page) : Len(page[j]) <= Len(page[k])
    /\ \A j \in 1..(k - 1) : Len(page[j]) < Len(page[k])

\* a text with its surrounding whitespace removed: no whitespace at either end
\* and the same tokens in between
Trimmed(s) ==
    IF \A i \in 1..Len(s) : IsSpace(s[i]) THEN <<>>
    ELSE LET a == CHOOSE i \in 1..Len(s) :
                      ~IsSpace(s[i]) /\ \A j \in 1..(i - 1) : IsSpace(s[j])
             b == CHOOSE i \in 1..Len(s) :
                      ~IsSpace(s[i]) /\ \A j \in (i + 1)..Len(s) : IsSpace(s[j])
         IN  SubSeq(s, a, b)

\* the row has at least two cells and a first-cell text that is neither empty
\* nor the header caption
Qualifies(tr) ==
    /\ Len(tr.tds) >= 2
    /\ Trimmed(tr.tds[1]) # <<>>
    /\ Trimmed(tr.tds[1]) # Header

\* the alt text of the row's j-th image, empty when the attribute is missing
AltText(tr, j) == Trimmed(IF tr.imgs[j] = None THEN <<>> ELSE tr.imgs[j][1])

\* the images of the row that carry a non-empty alt text
NonEmptyAlts(tr) == {j \in 1..Len(tr.imgs) : AltText(tr, j) # <<>>}

\* the entry the claim gives for a row
EntryOf(tr) ==
    LET keep == NonEmptyAlts(tr)
    IN  [region  |-> Trimmed(tr.tds[1]),
         weather |-> IF keep # {}
                     THEN AltText(tr, CHOOSE j \in keep : \A h \in keep : j <= h)
                     ELSE <<>>,
         mom     |-> IF Cardinality(keep) >= 2
                     THEN AltText(tr, CHOOSE j \in keep : \A h \in keep : h <= j)
                     ELSE <<>>]

EntrySet(data) == {data[i] : i \in 1..Len(data)}

\* C12 as stated: parse_table_icons selects the candidate table with the most
\* rows (the first on a tie), returns an empty mapping without candidates, and
\* emits an entry for exactly the rows with at least two cells and a first-cell
\* text neither empty nor the caption: every such row has its entry, and every
\* entry is that of such a row, holding the row's first non-empty alt as
\* weather and its last non-empty alt as month-over-month when it has at least
\* two (empty otherwise).
C12_EntryPerRow ==
    pt.called =>
        IF Len(pt.page) = 0 THEN pt.data = <<>>
        ELSE \E k \in 1..Len(pt.page) :
                /\ IsSelected(pt.page, k)
                /\ LET trs  == pt.page[k]
                       qual == {i \in 1..Len(trs) : Qualifies(trs[i])}
                   IN  /\ \A i \in qual : EntryOf(trs[i]) \in EntrySet(pt.data)
                       /\ \A e \in EntrySet(pt.data) :
                              \E i \in qual : e = EntryOf(trs[i])

\* C12, amended: as above, except that the mapping is keyed by the region name
\* and holds one entry per distinct name, with the weather and month-over-month
\* of the last qualifying row of that name.
C12_LastRowPerRegion ==
    pt.called =>
        IF Len(pt.page) = 0 THEN pt.data = <<>>
        ELSE \E k \in 1..Len(pt.page) :
                /\ IsSelected(pt.page, k)
                /\ LET trs  == pt.page[k]
                       qual == {i \in 1..Len(trs) : Qualifies(trs[i])}
                       last == {i \in qual : \A j \in qual :
                                   EntryOf(trs[j]).region = EntryOf(trs[i]).region
                                       => j <= i}
                   IN  /\ Len(pt.data) = Cardinality(last)
                       /\ EntrySet(pt.data) = {EntryOf(trs[i]) : i \in last}

\* C12's case: two tables of equal size, the first selected; its two rows name
\* the same district and the later row's descriptors are the ones returned
C12_Witness ==
    /\ pt.called
    /\ pt.page = << <<RowGangnam, RowGangnamAgain>>, <<RowSejong, RowCaption>> >>
    /\ pt.data = << [region |-> <<"Gangnam">>, weather |-> <<"anjeong">>,
                     mom |-> <<>>] >>

-----------------------------------------------------------------------------
(* 15. Gaps *)

\* the gaps earlier calls left in the running call's dataset
EarlierGaps == {g \in gaps : g[1] = run.dataset_key}

====
